---- MODULE Spec2Model ----
(***************************************************************************)
(* A model of snowdaemon: the log-line classifier parse_log_line, the      *)
(* supervised-run loop run(), the notification sender sns_message and the  *)
(* entry point main() (src/snowdaemon/helpers.py, src/snowdaemon/__main__.py).*)
(*                                                                         *)
(* Python strings are sequences of one-character strings, so slicing,      *)
(* splitting, regular-expression search and strip() are computed, not      *)
(* assumed.  A Python int is the pair <<"int", n>> and a Python str used as *)
(* a log level is the pair <<"str", s>>, so that the two never compare     *)
(* equal.                                                                  *)
(***************************************************************************)
EXTENDS Integers, Sequences, FiniteSets, TLC

VARIABLES
    pline,      \* SpecParse: the line handed to parse_log_line
    pres,       \* SpecParse: what parse_log_line produced for pline
    ppc,        \* SpecParse: "start" before the call, "done" after it
    confExists, \* the configuration file exists at conf_file_path
    confKeys,   \* the key paths the configuration file holds
    service,    \* the file's snowplow.service_name, when it holds one
    CONFIG,     \* __main__._CONFIG: the key paths loaded so far
    pc,         \* the daemon's position in main() / run_service() / run()
    exc,        \* the exception that ended the daemon, or "none"
    exitStatus, \* the daemon's own exit status, PyNone while it runs
    child,      \* "none", "running", "exited" or "spawn_failed"
    returncode, \* what process.poll() answers: PyNone until the child exits
    stdoutOpen, \* the child still holds the write end of the pipe
    buf,        \* characters written to the pipe and not read yet
    written,    \* every character the child wrote (history)
    writes,     \* how many writes the child made (history, bounded)
    output,     \* run(): the last readline() result
    parseArgs,  \* every argument run() passed to parse_log_line (history)
    records,    \* every (level, message) that log.log accepted (history)
    logged,     \* the daemon's own log.info / log.critical messages
    notifications, \* every (topic, message) published by sns_message
    retval,     \* run(): the local retval
    returned,   \* what run() returned to run_service(), PyNone before
    spawns,     \* how many child processes were created (history)
    pendingAtExit, \* unread output was in the pipe when the child exited
    spun        \* readline() returned '' while the child was running

pvars == <<pline, pres, ppc>>
confvars == <<confExists, confKeys, service>>
childvars == <<child, returncode, stdoutOpen, buf, written, writes, pendingAtExit>>
runvars == <<CONFIG, pc, exc, exitStatus, output, parseArgs, records, logged,
             notifications, retval, returned, spawns, spun>>
vars == <<pvars, confvars, childvars, runvars>>

----------------------------------------------------------------------------
(* Python string primitives *)

Min(a, b) == IF a < b THEN a ELSE b

\* s[a:b] with 0 <= a (Python slice, clamped to the string)
Slice(s, a, b) == SubSeq(s, a + 1, Min(b, Len(s)))

\* s[a:]
SliceFrom(s, a) == SubSeq(s, a + 1, Len(s))

\* pat occurs in s at the 1-based position i
StartsAt(s, i, pat) ==
    /\ i + Len(pat) - 1 <= Len(s)
    /\ SubSeq(s, i, i + Len(pat) - 1) = pat

\* str.split(sep, maxsplit) for a one-character separator
RECURSIVE Split(_, _, _)
Split(s, sep, maxsplit) ==
    IF maxsplit = 0 \/ ~(\E i \in 1..Len(s) : s[i] = sep)
    THEN <<s>>
    ELSE LET i == CHOOSE k \in 1..Len(s) :
                      /\ s[k] = sep
                      /\ \A j \in 1..(k - 1) : s[j] # sep
         IN  <<SubSeq(s, 1, i - 1)>> \o Split(SubSeq(s, i + 1, Len(s)), sep, maxsplit - 1)

LowerAZ == <<"a","b","c","d","e","f","g","h","i","j","k","l","m",
             "n","o","p","q","r","s","t","u","v","w","x","y","z">>
UpperAZ == <<"A","B","C","D","E","F","G","H","I","J","K","L","M",
             "N","O","P","Q","R","S","T","U","V","W","X","Y","Z">>

UpperChar(c) ==
    IF \E k \in 1..26 : LowerAZ[k] = c
    THEN UpperAZ[CHOOSE k \in 1..26 : LowerAZ[k] = c]
    ELSE c

\* str.upper()
Upper(s) == [i \in 1..Len(s) |-> UpperChar(s[i])]

\* str.strip(chars): leading and trailing characters of the set removed
StripChars(s, chars) ==
    IF \A i \in 1..Len(s) : s[i] \in chars
    THEN <<>>
    ELSE LET a == CHOOSE i \in 1..Len(s) :
                      /\ s[i] \notin chars
                      /\ \A j \in 1..(i - 1) : s[j] \in chars
             b == CHOOSE i \in 1..Len(s) :
                      /\ s[i] \notin chars
                      /\ \A j \in (i + 1)..Len(s) : s[j] \in chars
         IN  SubSeq(s, a, b)

Whitespace == {" ", "\t", "\n", "\r"}

\* str.strip()
Strip(s) == StripChars(s, Whitespace)

\* re.compile(pat + '([^' + stop + ']+)').search(s): <<>> when there is no
\* match (search returns None), else <<group(1)>> of the leftmost match,
\* the group being the longest run of characters other than stop.
ReSearch(s, pat, stop) ==
    LET hits == {i \in 1..Len(s) :
                    /\ StartsAt(s, i, pat)
                    /\ i + Len(pat) <= Len(s)
                    /\ s[i + Len(pat)] # stop}
    IN  IF hits = {}
        THEN <<>>
        ELSE LET i == CHOOSE k \in hits : \A j \in hits : k <= j
                 from == i + Len(pat)
                 to == CHOOSE e \in from..Len(s) :
                           /\ \A j \in from..e : s[j] # stop
                           /\ (e = Len(s) \/ s[e + 1] = stop)
             IN  <<SubSeq(s, from, to)>>

----------------------------------------------------------------------------
(* The literals of helpers.py *)

MAIN_PREFIX == <<"[","m","a","i","n","]">>
ERROR_PREFIX == <<"E","r","r","o","r">>
TIME_PREFIX == <<"t","i","m","e","=">>
LEVEL_EQ == <<"l","e","v","e","l","=">>
MSG_EQ_QUOTE == <<"m","s","g","=","\"">>

K_DEBUG == <<"D","E","B","U","G">>
K_INFO == <<"I","N","F","O">>
K_WARN == <<"W","A","R","N">>
K_ERROR == <<"E","R","R","O","R">>
K_CRITICAL == <<"C","R","I","T","I","C","A","L">>

PyNone == <<"None">>
PyInt(n) == <<"int", n>>
PyStr(s) == <<"str", s>>
IsInt(v) == v[1] = "int"

\* LOG_LEVELS: the logging module's integer levels
LOG_LEVELS ==
    [k \in {K_DEBUG, K_INFO, K_WARN, K_ERROR, K_CRITICAL} |->
        IF k = K_DEBUG THEN PyInt(10)
        ELSE IF k = K_INFO THEN PyInt(20)
        ELSE IF k = K_WARN THEN PyInt(30)
        ELSE IF k = K_ERROR THEN PyInt(40)
        ELSE PyInt(50)]

LevelValues == {LOG_LEVELS[k] : k \in DOMAIN LOG_LEVELS}

\* LOG_LEVELS.get(key, 'INFO'): the default is the str 'INFO'
LOG_LEVELS_get(key) ==
    IF key \in DOMAIN LOG_LEVELS THEN LOG_LEVELS[key] ELSE PyStr("INFO")

----------------------------------------------------------------------------
(* parse_log_line *)

lvl_re_search(line) == ReSearch(line, LEVEL_EQ, " ")
msg_re_search(line) == ReSearch(line, MSG_EQ_QUOTE, "\"")

\* the nested parse_dataflow_log_line(): each fragment defaults on its own
parse_dataflow_log_line(line) ==
    LET lm == lvl_re_search(line)
        mm == msg_re_search(line)
        lvl == IF lm = <<>> THEN <<"i","n","f","o">> ELSE lm[1]
        msg == IF mm = <<>> THEN line ELSE mm[1]
    IN  <<"ok", LOG_LEVELS_get(Upper(lvl)), StripChars(msg, {"\""})>>

\* <<"ok", level, message>>, or <<"raise", exception>>
parse_log_line(line) ==
    IF Slice(line, 0, 6) = MAIN_PREFIX
    THEN LET log_parts == Split(line, " ", 2)
         IN  IF Len(log_parts) < 3
             THEN <<"raise", "IndexError">>
             ELSE <<"ok", LOG_LEVELS_get(log_parts[2]), log_parts[3]>>
    ELSE IF Slice(line, 0, 5) = ERROR_PREFIX
    THEN <<"ok", LOG_LEVELS[K_ERROR], SliceFrom(line, 7)>>
    ELSE IF Slice(line, 0, 5) = TIME_PREFIX
    THEN parse_dataflow_log_line(line)
    ELSE <<"ok", LOG_LEVELS[K_WARN], line>>

----------------------------------------------------------------------------
(* SpecParse: parse_log_line applied to one line drawn from ParseInputs *)

Heads == {<<>>, MAIN_PREFIX, <<"[","m","a","i","n">>, ERROR_PREFIX,
          <<"E","r","r","o","r",":"," ">>, TIME_PREFIX,
          <<"t","i","m","e","=","1">>, <<"x">>, <<"\"">>}

Mids == {<<>>, <<" ">>, <<" ","W","A","R","N">>, <<" ","w","a","r","n">>,
         <<" ","I","N","F","O">>, <<" ","F","O","O">>,
         <<" ","l","e","v","e","l","=">>,
         <<" ","l","e","v","e","l","=","e","r","r","o","r">>,
         <<" ","l","e","v","e","l","=","D","e","b","u","g">>,
         <<" ","l","e","v","e","l","=","f","o","o">>}

Tails == {<<>>, <<" ">>, <<" ","a">>, <<" ","a"," ","b">>,
          <<" ","m","s","g","=">>, <<" ","m","s","g","=","\"">>,
          <<" ","m","s","g","=","\"","\"">>,
          <<" ","m","s","g","=","\"","a"," ","b","\"">>,
          <<" ","m","s","g","=","\"","a">>,
          <<" ","m","s","g","=","\"","a","\""," ","c","\"">>}

ParseInputs == {h \o m \o t : h \in Heads, m \in Mids, t \in Tails}

\* the daemon's variables, at rest: SpecParse never touches them
Idle ==
    /\ confExists = FALSE /\ confKeys = {} /\ service = "enrich"
    /\ CONFIG = {} /\ pc = "idle" /\ exc = "none" /\ exitStatus = PyNone
    /\ child = "none" /\ returncode = PyNone /\ stdoutOpen = FALSE
    /\ buf = <<>> /\ written = <<>> /\ writes = 0 /\ output = <<>>
    /\ parseArgs = <<>> /\ records = <<>> /\ logged = <<>>
    /\ notifications = <<>> /\ retval = PyNone /\ returned = PyNone
    /\ spawns = 0 /\ pendingAtExit = FALSE /\ spun = FALSE

InitParse ==
    /\ pline \in ParseInputs
    /\ pres = <<>>
    /\ ppc = "start"
    /\ Idle

Classify ==
    /\ ppc = "start"
    /\ pres' = parse_log_line(pline)
    /\ ppc' = "done"
    /\ UNCHANGED <<pline, confvars, childvars, runvars>>

NextParse == Classify

SpecParse == InitParse /\ [][NextParse]_vars

----------------------------------------------------------------------------
(* The environment of one daemon invocation *)

\* how many write() calls the child makes at most
MaxWrites == 2

\* the key paths the daemon reads from the configuration
K_REGION == "aws.aws_region"
K_BUCKET == "aws.s3_config_bucket"
K_DDB == "aws.dynamodb_config_table"
K_NOTIFICATION_ARN == "aws.sns.notification_arn"
K_ERROR_ARN == "aws.sns.error_arn"
K_SERVICE_NAME == "snowplow.service_name"
K_CONFIG_FILE == "snowplow.service_config_file"
K_CONFIG_FOLDER == "snowplow.service_config_folder"
K_DIRECTORY == "snowplow.service_directory"
K_JARFILE == "snowplow.jarfile"
K_LOG_SINKS == "logging.sinks"
K_LOG_MIN_LEVEL == "logging.min_level"

AllKeys == {K_REGION, K_BUCKET, K_DDB, K_NOTIFICATION_ARN, K_ERROR_ARN,
            K_SERVICE_NAME, K_CONFIG_FILE, K_CONFIG_FOLDER, K_DIRECTORY,
            K_JARFILE, K_LOG_SINKS, K_LOG_MIN_LEVEL}

\* the keys of the optional logging section
LoggingKeys == {K_LOG_SINKS, K_LOG_MIN_LEVEL}

\* a complete configuration file, one with a single key left out, or one
\* with no logging section at all
ConfigFiles ==
    {AllKeys} \cup {AllKeys \ {k} : k \in AllKeys} \cup {AllKeys \ LoggingKeys}

Services == {"enrich", "snowflake_loader"}

\* exit codes of the child: success, failure, 128+SIGKILL as a shell
\* reports it, and Popen's own -SIGKILL
ExitCodes == {0, 1, 137, -9}

NL == <<"\n">>

\* what one write() of the child may carry
ChildChunks ==
    { MAIN_PREFIX \o <<" ">> \o K_WARN \o <<" ","a">> \o NL,   \* [main] WARN a
      MAIN_PREFIX \o NL,                                       \* [main]
      MAIN_PREFIX \o <<" ","F","O","O"," ","a">> \o NL,        \* [main] FOO a
      NL,                                                      \* a blank line
      <<" ","y"," ">> \o NL,                                   \* padded text
      TIME_PREFIX \o <<"1"," ">> \o LEVEL_EQ \o <<"e","r","r","o","r"," ">>
          \o MSG_EQ_QUOTE \o <<"x","\"">> \o NL,    \* time=1 level=error msg="x"
      <<"z">> }                                     \* no newline: a partial line

Init ==
    /\ pline = <<>> /\ pres = <<>> /\ ppc = "idle"
    /\ confExists \in BOOLEAN
    /\ confKeys \in (IF confExists THEN ConfigFiles ELSE {{}})
    /\ service \in (IF confExists THEN Services ELSE {"enrich"})
    /\ CONFIG = {}
    /\ pc = "main"
    /\ exc = "none"
    /\ exitStatus = PyNone
    /\ child = "none"
    /\ returncode = PyNone
    /\ stdoutOpen = FALSE
    /\ buf = <<>>
    /\ written = <<>>
    /\ writes = 0
    /\ output = <<>>
    /\ parseArgs = <<>>
    /\ records = <<>>
    /\ logged = <<>>
    /\ notifications = <<>>
    /\ retval = PyNone
    /\ returned = PyNone
    /\ spawns = 0
    /\ pendingAtExit = FALSE
    /\ spun = FALSE

\* an exception nobody catches: the traceback, and exit status 1
Raise(e) ==
    /\ pc' = "raised"
    /\ exc' = e
    /\ exitStatus' = PyInt(1)

\* sys.exit(n): the status the operating system keeps is n modulo 256
SysExit(v) ==
    /\ pc' = "exit"
    /\ exitStatus' = IF v = PyNone THEN PyInt(0) ELSE PyInt(v[2] % 256)

----------------------------------------------------------------------------
(* main(), init() and run_service() *)

\* main(): open and load the configuration file, or print and sys.exit(1)
MainLoadConfig ==
    /\ pc = "main"
    /\ IF confExists
       THEN pc' = "init" /\ UNCHANGED exitStatus
       ELSE SysExit(PyInt(1))
    /\ UNCHANGED <<pvars, confvars, childvars, CONFIG, exc, output, parseArgs,
                   records, logged, notifications, retval, returned, spawns, spun>>

\* init(config): config['aws']['aws_region'] is read before _CONFIG is
\* updated; get_instance_id's metadata request may fail with an exception
\* its except clause does not name; configure_logging falls back to stderr
\* with no logging section, reads min_level and sinks of a section that is
\* there, and reads snowplow.service_name when the cloudwatch sink is
\* configured
MainInit ==
    /\ pc = "init"
    /\ \E cloudwatch \in BOOLEAN, metadata \in {"ok", "RequestException"} :
          IF K_REGION \notin confKeys
          THEN Raise("KeyError") /\ UNCHANGED CONFIG
          ELSE IF metadata # "ok"
          THEN Raise(metadata) /\ CONFIG' = confKeys
          ELSE IF confKeys \cap LoggingKeys # {} /\ ~(LoggingKeys \subseteq confKeys)
          THEN Raise("KeyError") /\ CONFIG' = confKeys
          ELSE IF cloudwatch /\ K_LOG_SINKS \in confKeys /\ K_SERVICE_NAME \notin confKeys
          THEN Raise("KeyError") /\ CONFIG' = confKeys
          ELSE /\ CONFIG' = confKeys
               /\ pc' = "run_service"
               /\ UNCHANGED <<exc, exitStatus>>
    /\ UNCHANGED <<pvars, confvars, childvars, output, parseArgs, records, logged,
                   notifications, retval, returned, spawns, spun>>

\* the keys download_service_folder / download_service_config read
DownloadKeys(name) ==
    IF name = "snowflake_loader"
    THEN {K_REGION, K_BUCKET, K_CONFIG_FOLDER}
    ELSE {K_REGION, K_SERVICE_NAME, K_CONFIG_FILE, K_BUCKET}

\* the keys snowflake_ldr_cmd (and the chdir) / streaming_cmd read
CmdKeys(name) ==
    IF name = "snowflake_loader"
    THEN {K_DIRECTORY, K_CONFIG_FOLDER}
    ELSE {K_REGION, K_DDB, K_DIRECTORY, K_JARFILE, K_CONFIG_FILE, K_SERVICE_NAME}

\* run_service(): read the service name, download the service's
\* configuration (S3, the credential export or the logger may fail) and
\* build the command line
RunService ==
    /\ pc = "run_service"
    /\ \E outcome \in {"ok", "ClientError", "SinkError"} :
          IF K_SERVICE_NAME \notin CONFIG \/ ~(DownloadKeys(service) \subseteq CONFIG)
          THEN Raise("KeyError")
          ELSE IF outcome # "ok"
          THEN Raise(outcome)
          ELSE IF ~(CmdKeys(service) \subseteq CONFIG)
          THEN Raise("KeyError")
          ELSE pc' = "launch" /\ UNCHANGED <<exc, exitStatus>>
    /\ UNCHANGED <<pvars, confvars, childvars, CONFIG, output, parseArgs, records,
                   logged, notifications, retval, returned, spawns, spun>>

----------------------------------------------------------------------------
(* The child process and its pipe *)

HasNewline(s) == \E i \in 1..Len(s) : s[i] = "\n"

\* the child writes one more chunk to its stdout/stderr
ChildWrite ==
    /\ child = "running"
    /\ stdoutOpen
    /\ writes < MaxWrites
    /\ \E chunk \in ChildChunks :
          /\ buf' = buf \o chunk
          /\ written' = written \o chunk
    /\ writes' = writes + 1
    /\ UNCHANGED <<pvars, confvars, runvars, child, returncode, stdoutOpen,
                   pendingAtExit>>

\* the child closes its output stream and keeps running
ChildCloseStdout ==
    /\ child = "running"
    /\ stdoutOpen
    /\ stdoutOpen' = FALSE
    /\ UNCHANGED <<pvars, confvars, runvars, child, returncode, buf, written,
                   writes, pendingAtExit>>

\* the child exits: its descriptors close, poll() now answers the code
ChildExit ==
    /\ child = "running"
    /\ \E code \in ExitCodes : returncode' = PyInt(code)
    /\ child' = "exited"
    /\ stdoutOpen' = FALSE
    /\ pendingAtExit' = (buf # <<>>)
    /\ UNCHANGED <<pvars, confvars, runvars, buf, written, writes>>

----------------------------------------------------------------------------
(* run() *)

\* run(): the launch message
Launch ==
    /\ pc = "launch"
    /\ \E sink \in {"ok", "SinkError"} :
          IF sink = "ok"
          THEN /\ logged' = Append(logged, <<"info", "launching", PyNone>>)
               /\ pc' = "spawn"
               /\ UNCHANGED <<exc, exitStatus>>
          ELSE Raise(sink) /\ UNCHANGED logged
    /\ UNCHANGED <<pvars, confvars, childvars, CONFIG, output, parseArgs, records,
                   notifications, retval, returned, spawns, spun>>

\* subprocess.Popen(cmd_args, stdout=PIPE, stderr=STDOUT): the child runs
SpawnOk ==
    /\ pc = "spawn"
    /\ child' = "running"
    /\ stdoutOpen' = TRUE
    /\ spawns' = spawns + 1
    /\ pc' = "readline"
    /\ UNCHANGED <<pvars, confvars, returncode, buf, written, writes, pendingAtExit,
                   CONFIG, exc, exitStatus, output, parseArgs, records, logged,
                   notifications, retval, returned, spun>>

\* mutant of SpawnFail: the spawn error is reported on the error topic
SpawnFail_Notify ==
    /\ pc = "spawn"
    /\ child' = "spawn_failed"
    /\ notifications' = Append(notifications, <<"error", <<"stopped", PyNone>>>>)
    /\ Raise("FileNotFoundError")
    /\ UNCHANGED <<pvars, confvars, returncode, stdoutOpen, buf, written, writes,
                   pendingAtExit, CONFIG, output, parseArgs, records, logged,
                   retval, returned, spawns, spun>>

\* subprocess.Popen raises (no such executable): nothing in run(),
\* run_service() or main() catches it
SpawnFail ==
    /\ pc = "spawn"
    /\ child' = "spawn_failed"
    /\ Raise("FileNotFoundError")
    /\ UNCHANGED <<pvars, confvars, returncode, stdoutOpen, buf, written, writes,
                   pendingAtExit, CONFIG, output, parseArgs, records, logged,
                   notifications, retval, returned, spawns, spun>>

\* the 1-based position of the first newline of s
FirstNewline(s) ==
    CHOOSE i \in 1..Len(s) : s[i] = "\n" /\ \A j \in 1..(i - 1) : s[j] # "\n"

\* process.stdout.readline(): blocks until the pipe holds a whole line or
\* every write end is closed; at end-of-stream it returns what is left,
\* '' when nothing is
ReadLine ==
    /\ pc = "readline"
    /\ HasNewline(buf) \/ ~stdoutOpen
    /\ IF HasNewline(buf)
       THEN /\ output' = SubSeq(buf, 1, FirstNewline(buf))
            /\ buf' = SubSeq(buf, FirstNewline(buf) + 1, Len(buf))
       ELSE /\ output' = buf
            /\ buf' = <<>>
    /\ pc' = "poll"
    /\ UNCHANGED <<pvars, confvars, child, returncode, stdoutOpen, written, writes,
                   pendingAtExit, CONFIG, exc, exitStatus, parseArgs, records,
                   logged, notifications, retval, returned, spawns, spun>>

\* mutants of the loop's exit test: one leaves without draining the pipe,
\* one does not wait for the child
LoopExit_NoDrain(polled, out) == polled # PyNone
LoopExit_OnEof(polled, out) == out = <<>>

\* if process.poll() is not None and output == '': break
LoopExit(polled, out) == polled # PyNone /\ out = <<>>

\* the rest of one loop iteration: the exit test, then classify and forward
LoopBreak ==
    /\ pc = "poll"
    /\ LoopExit(returncode, output)
    /\ pc' = "retval"
    /\ UNCHANGED <<pvars, confvars, childvars, CONFIG, exc, exitStatus, output,
                   parseArgs, records, logged, notifications, retval, returned,
                   spawns, spun>>

\* output == '' and the child has not exited: nothing to forward, read again
LoopSpin ==
    /\ pc = "poll"
    /\ ~LoopExit(returncode, output)
    /\ output = <<>>
    /\ spun' = TRUE
    /\ pc' = "readline"
    /\ UNCHANGED <<pvars, confvars, childvars, CONFIG, exc, exitStatus, output,
                   parseArgs, records, logged, notifications, retval, returned,
                   spawns>>

\* if output: lvl, msg = parse_log_line(output.strip()); log.log(lvl, msg)
\* Logger.log raises TypeError for a level that is not an int; the sink may
\* fail as well
LoopForward ==
    /\ pc = "poll"
    /\ ~LoopExit(returncode, output)
    /\ output # <<>>
    /\ LET arg == Strip(output)
           entry == parse_log_line(arg)
       IN  /\ parseArgs' = Append(parseArgs, arg)
           /\ \E sink \in {"ok", "SinkError"} :
                 IF entry[1] = "raise"
                 THEN Raise(entry[2]) /\ UNCHANGED records
                 ELSE IF ~IsInt(entry[2])
                 THEN Raise("TypeError") /\ UNCHANGED records
                 ELSE IF sink # "ok"
                 THEN Raise(sink) /\ UNCHANGED records
                 ELSE /\ records' = Append(records, <<entry[2], entry[3]>>)
                      /\ pc' = "readline"
                      /\ UNCHANGED <<exc, exitStatus>>
    /\ UNCHANGED <<pvars, confvars, childvars, CONFIG, output, logged,
                   notifications, retval, returned, spawns, spun>>

\* retval = process.poll()
PollRetval ==
    /\ pc = "retval"
    /\ retval' = returncode
    /\ pc' = "report"
    /\ UNCHANGED <<pvars, confvars, childvars, CONFIG, exc, exitStatus, output,
                   parseArgs, records, logged, notifications, returned, spawns, spun>>

\* the message run() logs and sends: its kind and the code it formats in
OutcomeMsg(rv) ==
    IF rv = PyInt(0) THEN <<"finished", PyInt(0)>> ELSE <<"stopped", rv>>

\* log.info(msg) when retval == 0, log.critical(msg) otherwise
Report ==
    /\ pc = "report"
    /\ \E sink \in {"ok", "SinkError"} :
          IF sink = "ok"
          THEN /\ logged' = Append(logged,
                      <<IF retval = PyInt(0) THEN "info" ELSE "critical">>
                          \o OutcomeMsg(retval))
               /\ pc' = "notify"
               /\ UNCHANGED <<exc, exitStatus>>
          ELSE Raise(sink) /\ UNCHANGED logged
    /\ UNCHANGED <<pvars, confvars, childvars, CONFIG, output, parseArgs, records,
                   notifications, retval, returned, spawns, spun>>

\* sns_message(message, config, log_level): level_details reads both ARNs
\* whatever the level; then one publish to the level's topic, which may fail
sns_message(message, log_level) ==
    \E sns \in {"ok", "ClientError"} :
        IF ~({K_NOTIFICATION_ARN, K_ERROR_ARN} \subseteq CONFIG)
        THEN Raise("KeyError") /\ UNCHANGED notifications
        ELSE IF sns # "ok"
        THEN Raise(sns) /\ UNCHANGED notifications
        ELSE /\ notifications' = Append(notifications,
                    <<IF log_level = "info" THEN "notification" ELSE "error", message>>)
             /\ pc' = "return"
             /\ UNCHANGED <<exc, exitStatus>>

\* sns_message(msg, config, 'info') or sns_message(msg, config, 'error')
Notify ==
    /\ pc = "notify"
    /\ sns_message(OutcomeMsg(retval), IF retval = PyInt(0) THEN "info" ELSE "error")
    /\ UNCHANGED <<pvars, confvars, childvars, CONFIG, output, parseArgs, records,
                   logged, retval, returned, spawns, spun>>

\* return retval, then main(): sys.exit(rtn)
Return ==
    /\ pc = "return"
    /\ returned' = retval
    /\ SysExit(retval)
    /\ UNCHANGED <<pvars, confvars, childvars, CONFIG, exc, output, parseArgs,
                   records, logged, notifications, retval, spawns, spun>>

Next ==
    \/ MainLoadConfig
    \/ MainInit
    \/ RunService
    \/ Launch
    \/ SpawnOk
    \/ SpawnFail
    \/ ChildWrite
    \/ ChildCloseStdout
    \/ ChildExit
    \/ ReadLine
    \/ LoopBreak
    \/ LoopSpin
    \/ LoopForward
    \/ PollRetval
    \/ Report
    \/ Notify
    \/ Return

Spec == Init /\ [][Next]_vars

----------------------------------------------------------------------------
(* The claims *)

\* the daemon has stopped, by sys.exit or by an uncaught exception
Ended == pc \in {"exit", "raised"}

\* exceptions that come from the child's output alone
LineErrors == {"IndexError", "TypeError"}

\* the lines of a stream, each with its newline, the last perhaps without
RECURSIVE LinesOf(_)
LinesOf(s) ==
    IF s = <<>> THEN <<>>
    ELSE IF HasNewline(s)
    THEN <<SubSeq(s, 1, FirstNewline(s))>>
             \o LinesOf(SubSeq(s, FirstNewline(s) + 1, Len(s)))
    ELSE <<s>>

\* the outcome messages (completion or failure) logged so far
OutcomeLogs == {i \in 1..Len(logged) : logged[i][2] \in {"finished", "stopped"}}

\* C1: whenever the child was spawned and exited with code c, and neither
\* the logger sink nor the notification sender failed, a run() that has
\* ended returned c, whatever lines the child emitted.
C1_ExitCodeReturned ==
    (spawns = 1 /\ child = "exited" /\ Ended /\ exc \in {"none"} \cup LineErrors)
        => returned = returncode

\* C2: when run() logs the completion or failure message, the records it
\* has forwarded are, in order and one for one, the classifications of the
\* lines the child wrote (each line stripped as run() strips it).
C2_ForwardedInOrder ==
    (pc = "report" \/ OutcomeLogs # {}) =>
        LET lines == LinesOf(written)
        IN  /\ Len(records) = Len(lines)
            /\ \A i \in 1..Len(lines) :
                  parse_log_line(Strip(lines[i])) = <<"ok", records[i][1], records[i][2]>>

\* C2 witness: two lines forwarded, one of them still unread in the pipe
\* when the child exited, and completion is about to be logged
C2_Witness ==
    /\ pc = "report"
    /\ pendingAtExit
    /\ Len(records) = 2
    /\ Len(LinesOf(written)) = 2

\* C3: every run() in which the child exited, the sinks not failing, sent
\* exactly one notification: to "notification" iff the code is 0, after one
\* info completion log; to "error" iff it is nonzero, after one critical
\* log carrying the code.
C3_ExactlyOneNotification ==
    (spawns = 1 /\ child = "exited" /\ Ended /\ exc \in {"none"} \cup LineErrors) =>
        /\ Len(notifications) = 1
        /\ Cardinality(OutcomeLogs) = 1
        /\ IF returncode = PyInt(0)
           THEN /\ notifications[1][1] = "notification"
                /\ \E i \in OutcomeLogs : logged[i] = <<"info", "finished", PyInt(0)>>
           ELSE /\ notifications[1][1] = "error"
                /\ \E i \in OutcomeLogs : logged[i] = <<"critical", "stopped", returncode>>

\* C4: a failure of the logger sink or of the notification sender during
\* run() does not keep run() from returning the exit code of a child that
\* has exited.
C4_SinkFailureKeepsExitCode ==
    (spawns = 1 /\ child = "exited" /\ Ended /\ exc \in {"SinkError", "ClientError"})
        => returned = returncode

\* C5: a configuration error aborts before any child is spawned: with no
\* configuration file the daemon exits 1 without spawning, and a missing
\* configuration key (a KeyError) ends the daemon only while no child
\* exists.
C5_ConfigErrorBeforeSpawn ==
    /\ (~confExists /\ Ended) => (exitStatus = PyInt(1) /\ child = "none")
    /\ exc = "KeyError" => child = "none"

\* C6: when the child cannot be spawned, the error propagates out of run()
\* (nothing is returned) and no notification is sent to either topic.
C6_SpawnFailureNoNotification ==
    child = "spawn_failed" =>
        /\ pc = "raised"
        /\ exc = "FileNotFoundError"
        /\ returned = PyNone
        /\ notifications = <<>>
        /\ OutcomeLogs = {}

\* C6 witness: the spawn failed and the exception ended the daemon
C6_Witness == child = "spawn_failed" /\ exitStatus = PyInt(1) /\ spawns = 0

\* C7: one child at most is spawned; run() is past its read loop, or has
\* reported an outcome, only when the child has exited and the last read
\* returned end-of-stream; and the code it branches on is the child's exit
\* code, never None.
C7_LeavesLoopOnlyAfterExit ==
    /\ spawns <= 1
    /\ (pc \in {"retval", "report", "notify", "return"} \/ returned # PyNone
            \/ notifications # <<>> \/ OutcomeLogs # {})
          => (child = "exited" /\ output = <<>>)
    /\ pc \in {"report", "notify", "return"}
          => (retval # PyNone /\ retval = returncode)

\* C7 witness: the child closed its output while running, run() read ''
\* with poll() still None, and the notification went out only after exit
C7_Witness == spun /\ notifications # <<>> /\ child = "exited"

\* C8: every severity parse_log_line returns is one of the LOG_LEVELS
\* values; an unrecognized token ([main] form: not an exact upper-case key;
\* time= form: no key case-insensitively) yields the value INFO yields.
C8_SeverityInClosedSet ==
    (ppc = "done" /\ pres[1] = "ok") =>
        /\ pres[2] \in LevelValues
        /\ (Slice(pline, 0, 6) = MAIN_PREFIX
                /\ Split(pline, " ", 2)[2] \notin DOMAIN LOG_LEVELS)
              => pres[2] = LOG_LEVELS[K_INFO]
        /\ (Slice(pline, 0, 5) = TIME_PREFIX /\ lvl_re_search(pline) # <<>>
                /\ Upper(lvl_re_search(pline)[1]) \notin DOMAIN LOG_LEVELS)
              => pres[2] = LOG_LEVELS[K_INFO]

\* C9: run() never passes an empty string to parse_log_line.
C9_NoEmptyLineClassified ==
    \A i \in 1..Len(parseArgs) : parseArgs[i] # <<>>

\* the severity a token stands for, case-insensitively, INFO by default
LevelOf(token) ==
    IF Upper(token) \in DOMAIN LOG_LEVELS
    THEN LOG_LEVELS[Upper(token)]
    ELSE LOG_LEVELS[K_INFO]

\* C10: for a line beginning with time=, if the level= fragment or the
\* msg=" fragment is absent the result is (INFO, the whole raw line); with
\* both present it is (the token's level, the text after msg=" up to the
\* next double quote).
C10_DataflowDefaults ==
    (ppc = "done" /\ Slice(pline, 0, 5) = TIME_PREFIX) =>
        LET lm == lvl_re_search(pline)
            mm == msg_re_search(pline)
        IN  IF lm = <<>> \/ mm = <<>>
            THEN pres = <<"ok", LOG_LEVELS[K_INFO], pline>>
            ELSE pres = <<"ok", LevelOf(lm[1]), mm[1]>>

====
